---- MODULE Spec2Model ----
(***************************************************************************)
(* Model of the timezone bot: the Timezones cog (src/timezones.py), the    *)
(* ConfirmTimezone view and the database schema created by the setup       *)
(* script at the end of src/main.py.                                       *)
(*                                                                         *)
(* The database file timezones.sql outlives the process, so the initial    *)
(* content of the tables the schema creates (timezones, messages) is any   *)
(* content the schema's constraints allow.  The schema creates no          *)
(* cooldowns table, so that table starts without rows.                     *)
(*                                                                         *)
(* Time is counted in minutes: dt.now().minute = now % 60, dt.now().hour = *)
(* (now \div 60) % 24 and int(time.time()) + 15 * 60 = now + 15.           *)
(***************************************************************************)
EXTENDS Integers, Sequences, FiniteSets, TLC

\* ---------------------------------------------------------------- bounds
MaxCount == 1
MaxFlows == 1
MaxNow == 60
MaxOffset == 5

\* ------------------------------------------------------- program constants
CooldownMinutes == 15

\* ------------------------------------------------------------ input sets
Users == {1001, 1002}
\* an account whose author.bot is set
Bot == 1003
Authors == Users \cup {Bot}
Guilds == {1, 2}
Channels == {1, 2}
NoGuild == 0
\* where a message is written: <<message.guild, message.channel>>
Places == {<<NoGuild, 1>>, <<1, 1>>, <<1, 2>>, <<2, 2>>}
\* the minute at which the cog is loaded
StartTimes == {59}
NoMention == -1
\* the digits of the first <@...> of the content: no mention, a user's id, and a longer
\* number whose middle digits spell a user's id
Mentions == {NoMention, 1002, 1210020}
Offsets == {-3, 2}
\* what the user types for "HH:MM", as the pair of numbers
GivenTimes == {<<7, 30>>, <<23, 59>>, <<24, 58>>, <<25, 59>>}
Slots == 1..MaxFlows
TzRange == (0 - MaxOffset)..MaxOffset

VARIABLES
    now,              \* the clock, in minutes
    timezones,        \* table timezones: set of [user_id, utc_diff]
    messages,         \* table messages: set of [guild_id, channel_id, count]
    cooldowns,        \* table cooldowns: sequence of [user_id, cooldown], in rowid order
    clear_db,         \* the clear_db task: "waiting", "deleted", "cancelling", "stopped"
    changes,          \* row['changes()'] read by the running clear_db iteration
    update_cooldowns, \* the update_cooldowns task: "idle" (never started), "running",
                      \* or "failed" (ended by an exception of its body)
    flow,             \* the command invocations and confirmation views in flight
    ev,               \* the last step taken: its inputs and its outcome (reminder: a reply
                      \* was sent; started: clear_db.start() started the task)
    your_tz, their_tz, field  \* the operands and the value of the "Time Difference" field

vars == <<now, timezones, messages, cooldowns, clear_db, changes, update_cooldowns,
          flow, ev, your_tz, their_tz, field>>

\* ------------------------------------------------------------- the clock
Minute(t) == t % 60
Hour(t) == (t \div 60) % 24

\* ------------------------------------------------------------ the tables
\* timezones: user_id INTEGER NOT NULL UNIQUE
TimezoneTables ==
    {t \in SUBSET [user_id : Users, utc_diff : Offsets] :
        \A r1, r2 \in t : r1.user_id = r2.user_id => r1 = r2}

\* messages: guild_id INTEGER NOT NULL UNIQUE, channel_id INTEGER NOT NULL UNIQUE
MessageTables ==
    {t \in SUBSET [guild_id : Guilds, channel_id : Channels, count : 1..MaxCount] :
        \A r1, r2 \in t :
            (r1.guild_id = r2.guild_id \/ r1.channel_id = r2.channel_id) => r1 = r2}

\* SELECT * FROM timezones WHERE user_id = ?  (fetchone)
HasTimezone(table, user) == \E r \in table : r.user_id = user
TimezoneOf(table, user) == (CHOOSE r \in table : r.user_id = user).utc_diff

\* SELECT * FROM cooldowns WHERE user_id = ?  (fetchone)
HasCooldown(table, user) == \E i \in 1..Len(table) : table[i].user_id = user

NoField == [hours |-> -1, ahead |-> "none"]

IdleFlow == [pc |-> "idle", user |-> 0, hours |-> 0, row |-> FALSE, timezone |-> 0]

Ev(op, user, arg, result, reminder) ==
    [op |-> op, user |-> user, arg |-> arg, result |-> result, reminder |-> reminder,
     started |-> FALSE]

Init ==
    /\ now \in StartTimes
    /\ timezones \in TimezoneTables
    /\ messages \in MessageTables
    /\ cooldowns = <<>>
    /\ clear_db = "waiting"
    /\ changes = 0
    /\ update_cooldowns = "idle"
    /\ flow = [s \in Slots |-> IdleFlow]
    /\ ev = Ev("cog_load", 0, 0, "ok", FALSE)
    /\ your_tz = 0
    /\ their_tz = 0
    /\ field = NoField

Tick ==
    /\ now < MaxNow
    /\ now' = now + 1
    /\ ev' = Ev("clock", 0, 0, "ok", FALSE)
    /\ UNCHANGED <<timezones, messages, cooldowns, clear_db, changes, update_cooldowns,
                   flow, your_tz, their_tz, field>>

\* ------------------------------------------------- /timezone set and remove
\* re.findall('[1-9][1-9]:[1-9][1-9]', given_time): both numbers are two digits 1-9
Matches(g) == \A n \in {g[1], g[2]} : (n \div 10) \in 1..9 /\ (n % 10) \in 1..9

\* the check on hours and minutes: TRUE when the command answers "Invalid time format"
RejectsTime(hours, minutes) ==
    (0 <= hours /\ hours < 24) \/ (0 <= minutes /\ minutes < 59)

\* set_timezone up to the SELECT: the format checks, the minute check, the read of the row
SetTimezoneSelect(s, u, g) ==
    /\ flow[s].pc = "idle"
    /\ IF ~Matches(g) \/ RejectsTime(g[1], g[2])
         THEN /\ ev' = Ev("set", u, 0, "invalid_format", FALSE)
              /\ flow' = flow
         ELSE IF g[2] # Minute(now)
         THEN /\ ev' = Ev("set", u, 0, "wrong_minute", FALSE)
              /\ flow' = flow
         ELSE /\ ev' = Ev("set", u, 0, "selected", FALSE)
              /\ flow' = [flow EXCEPT ![s] = [pc |-> "set_selected", user |-> u,
                                               hours |-> g[1],
                                               row |-> HasTimezone(timezones, u),
                                               timezone |-> 0]]
    /\ UNCHANGED <<now, timezones, messages, cooldowns, clear_db, changes,
                   update_cooldowns, your_tz, their_tz, field>>

\* set_timezone after the SELECT: the denial, or the offset and the confirmation view
SetTimezoneReply(s) ==
    /\ flow[s].pc = "set_selected"
    /\ IF flow[s].row
         THEN /\ ev' = Ev("set", flow[s].user, 0, "Conflict", FALSE)
              /\ flow' = [flow EXCEPT ![s] = IdleFlow]
         ELSE LET timezone == flow[s].hours - Hour(now) IN
              /\ ev' = Ev("set", flow[s].user, timezone, "confirm", FALSE)
              /\ flow' = [flow EXCEPT ![s] = [pc |-> "view", user |-> flow[s].user,
                                               hours |-> 0, row |-> FALSE,
                                               timezone |-> timezone]]
    /\ UNCHANGED <<now, timezones, messages, cooldowns, clear_db, changes,
                   update_cooldowns, your_tz, their_tz, field>>

\* self.cog of a ConfirmTimezone view: __init__ sets user, timezone and
\* formatted_timezone only, and nothing assigns cog, so the read raises
ViewCog == "AttributeError"

\* INSERT INTO timezones (user_id, utc_diff) VALUES (?, ?) under the UNIQUE constraint
InsertTimezone(table, user, tz) ==
    IF HasTimezone(table, user)
      THEN [table |-> table, result |-> "IntegrityError"]
      ELSE [table |-> table \cup {[user_id |-> user, utc_diff |-> tz]}, result |-> "ok"]

\* the 'Yes' button
Yes(s) ==
    /\ flow[s].pc = "view"
    /\ IF ViewCog = "AttributeError"
         THEN /\ ev' = Ev("yes", flow[s].user, flow[s].timezone, "AttributeError", FALSE)
              /\ UNCHANGED <<timezones, flow>>
         ELSE LET ins == InsertTimezone(timezones, flow[s].user, flow[s].timezone) IN
              /\ ev' = Ev("yes", flow[s].user, flow[s].timezone, ins.result, FALSE)
              /\ timezones' = ins.table
              /\ flow' = IF ins.result = "ok" THEN [flow EXCEPT ![s] = IdleFlow] ELSE flow
    /\ UNCHANGED <<now, messages, cooldowns, clear_db, changes, update_cooldowns,
                   your_tz, their_tz, field>>

\* the 'No' button
No(s) ==
    /\ flow[s].pc = "view"
    /\ ev' = Ev("no", flow[s].user, 0, "cancelled", FALSE)
    /\ flow' = [flow EXCEPT ![s] = IdleFlow]
    /\ UNCHANGED <<now, timezones, messages, cooldowns, clear_db, changes,
                   update_cooldowns, your_tz, their_tz, field>>

\* the view's timeout
OnTimeout(s) ==
    /\ flow[s].pc = "view"
    /\ ev' = Ev("on_timeout", flow[s].user, 0, "timed_out", FALSE)
    /\ flow' = [flow EXCEPT ![s] = IdleFlow]
    /\ UNCHANGED <<now, timezones, messages, cooldowns, clear_db, changes,
                   update_cooldowns, your_tz, their_tz, field>>

\* mutant: the row check of remove_timezone without its "not"
RowMissingInverted(table, user) == HasTimezone(table, user)

\* the row check of remove_timezone: if not row
RowMissing(table, user) == ~HasTimezone(table, user)

\* remove_timezone up to the row check: the SELECT and the "no timezone set" denial
RemoveTimezoneSelect(s, u) ==
    /\ flow[s].pc = "idle"
    /\ IF RowMissing(timezones, u)
         THEN /\ ev' = Ev("remove", u, 0, "NotFound", FALSE)
              /\ flow' = flow
         ELSE /\ ev' = Ev("remove", u, 0, "selected", FALSE)
              /\ flow' = [flow EXCEPT ![s] = [pc |-> "rm_selected", user |-> u, hours |-> 0,
                                               row |-> TRUE, timezone |-> 0]]
    /\ UNCHANGED <<now, timezones, messages, cooldowns, clear_db, changes,
                   update_cooldowns, your_tz, their_tz, field>>

\* mutant: the DELETE without its WHERE clause
DeleteTimezoneNoWhere(table, user) == {}

\* DELETE FROM timezones WHERE user_id = ?
DeleteTimezone(table, user) == {r \in table : r.user_id # user}

\* remove_timezone after the row check: the DELETE and the confirmation
RemoveTimezoneDelete(s) ==
    /\ flow[s].pc = "rm_selected"
    /\ timezones' = DeleteTimezone(timezones, flow[s].user)
    /\ ev' = Ev("remove", flow[s].user, 0, "removed", FALSE)
    /\ flow' = [flow EXCEPT ![s] = IdleFlow]
    /\ UNCHANGED <<now, messages, cooldowns, clear_db, changes, update_cooldowns,
                   your_tz, their_tz, field>>

\* ------------------------------------------------------------ on_message
\* self.clear_db.start() inside try/except RuntimeError: starts the task when its
\* previous run is done, and is a swallowed RuntimeError otherwise
StartClearDb(task) == IF task = "stopped" THEN "waiting" ELSE task

\* mutant: the comma is there and the statement runs
ExecuteInsertMessagesWithComma == "ok"

\* the conn.execute call of the INSERT INTO messages: the SQL string literal is followed
\* by the parenthesised parameters with no comma between them, so the string is called
ExecuteInsertMessages == "TypeError"

\* INSERT INTO messages (guild_id, channel_id) ... ON CONFLICT (guild_id, channel_id)
\* DO SET count = count + 1, as the statement reads, on the table the schema creates
UpsertMessage(table, guild, channel) ==
    IF \E r \in table : r.guild_id = guild /\ r.channel_id = channel
      THEN {IF r.guild_id = guild /\ r.channel_id = channel
              THEN [r EXCEPT !.count = r.count + 1] ELSE r : r \in table}
      ELSE IF \E r \in table : r.guild_id = guild \/ r.channel_id = channel
      THEN table
      ELSE table \cup {[guild_id |-> guild, channel_id |-> channel, count |-> 0]}

\* the number of decimal digits of n
RECURSIVE Digits(_)
Digits(n) == IF n < 10 THEN 1 ELSE 1 + Digits(n \div 10)

RECURSIVE Pow10(_)
Pow10(k) == IF k = 0 THEN 1 ELSE 10 * Pow10(k - 1)

\* int(mention[2:-1]): the digits without their first two and their last
StripMention(mention) == (mention % Pow10(Digits(mention) - 2)) \div 10

Outcome(msgs, cds, task, result) ==
    [messages |-> msgs, cooldowns |-> cds, update_cooldowns |-> task, result |-> result,
     reminder |-> FALSE]

\* on_message from the cooldown SELECT on: the cooldown row and the restart of
\* update_cooldowns, the mention, the two timezone rows
AfterInsertMessages(author, guild, channel, mention) ==
    LET msgs == UpsertMessage(messages, guild, channel) IN
    IF HasCooldown(cooldowns, author)
      THEN Outcome(msgs, cooldowns, update_cooldowns, "on_cooldown")
      ELSE
        LET cds == Append(cooldowns,
                          [user_id |-> author, cooldown |-> now + CooldownMinutes])
        IN  IF mention = NoMention
              THEN Outcome(msgs, cds, "running", "no_mention")
            ELSE IF Digits(mention) < 4
              THEN Outcome(msgs, cds, "running", "ValueError")
            ELSE IF ~HasTimezone(timezones, StripMention(mention))
              THEN Outcome(msgs, cds, "running", "their_unset")
            ELSE IF HasTimezone(timezones, author)
              THEN Outcome(msgs, cds, "running", "your_set")
            ELSE Outcome(msgs, cds, "running", "TypeError")

\* mutant: the guard without its check of author.bot
IgnoresNoBotCheck(author, guild) == guild = NoGuild

\* if not message.guild or message.author.bot: return
Ignores(author, guild) == guild = NoGuild \/ author = Bot

\* the listener check_messages_per_minute
OnMessage(author, guild, channel, mention) ==
    IF Ignores(author, guild)
      THEN /\ ev' = Ev("on_message", 0, 0, "ignored", FALSE)
           /\ UNCHANGED <<now, timezones, messages, cooldowns, clear_db, changes,
                          update_cooldowns, flow, your_tz, their_tz, field>>
      ELSE LET out == IF ExecuteInsertMessages = "TypeError"
                        THEN Outcome(messages, cooldowns, update_cooldowns, "TypeError")
                        ELSE AfterInsertMessages(author, guild, channel, mention)
           IN /\ clear_db' = StartClearDb(clear_db)
              /\ messages' = out.messages
              /\ cooldowns' = out.cooldowns
              /\ update_cooldowns' = out.update_cooldowns
              /\ ev' = [Ev("on_message", author, mention, out.result, out.reminder)
                          EXCEPT !.started = (clear_db = "stopped")]
              /\ UNCHANGED <<now, timezones, changes, flow, your_tz, their_tz, field>>

\* ------------------------------------------------------------ clear_db
\* mutant: the loop's timer still fires after the task was cancelled
ClearDbDeleteAfterCancel ==
    /\ clear_db \in {"waiting", "stopped"}
    /\ messages' = {}
    /\ changes' = Cardinality(messages)
    /\ clear_db' = "deleted"
    /\ ev' = Ev("clear_db", 0, Cardinality(messages), "deleted", FALSE)
    /\ UNCHANGED <<now, timezones, cooldowns, update_cooldowns, flow,
                   your_tz, their_tz, field>>

\* DELETE FROM messages and SELECT changes()
ClearDbDelete ==
    /\ clear_db = "waiting"
    /\ messages' = {}
    /\ changes' = Cardinality(messages)
    /\ clear_db' = "deleted"
    /\ ev' = Ev("clear_db", 0, Cardinality(messages), "deleted", FALSE)
    /\ UNCHANGED <<now, timezones, cooldowns, update_cooldowns, flow,
                   your_tz, their_tz, field>>

\* mutant: the task cancels itself when rows were deleted
AfterChangesInverted(n) == IF n # 0 THEN "cancelling" ELSE "waiting"

\* if changes == 0: self.clear_db.cancel(); otherwise the loop waits for its next minute
AfterChanges(n) == IF n = 0 THEN "cancelling" ELSE "waiting"

\* the end of an iteration of clear_db
ClearDbCheck ==
    /\ clear_db = "deleted"
    /\ clear_db' = AfterChanges(changes)
    /\ changes' = 0
    /\ ev' = Ev("clear_db", 0, changes, IF changes = 0 THEN "cancel" ELSE "kept", FALSE)
    /\ UNCHANGED <<now, timezones, messages, cooldowns, update_cooldowns, flow,
                   your_tz, their_tz, field>>

\* the cancellation reaches the task at the loop's next await
ClearDbCancelled ==
    /\ clear_db = "cancelling"
    /\ clear_db' = "stopped"
    /\ ev' = Ev("clear_db", 0, 0, "stopped", FALSE)
    /\ UNCHANGED <<now, timezones, messages, cooldowns, changes, update_cooldowns, flow,
                   your_tz, their_tz, field>>

Next ==
    \/ Tick
    \/ \E a \in Authors, p \in Places, m \in Mentions : OnMessage(a, p[1], p[2], m)
    \/ ClearDbDelete
    \/ ClearDbCheck
    \/ ClearDbCancelled
    \/ \E s \in Slots, u \in Users, g \in GivenTimes : SetTimezoneSelect(s, u, g)
    \/ \E s \in Slots : SetTimezoneReply(s)
    \/ \E s \in Slots : Yes(s)
    \/ \E s \in Slots : No(s)
    \/ \E s \in Slots : OnTimeout(s)
    \/ \E s \in Slots, u \in Users : RemoveTimezoneSelect(s, u)
    \/ \E s \in Slots : RemoveTimezoneDelete(s)

Spec == Init /\ [][Next]_vars

\* ------------------------------------------------ the "Time Difference" field
Abs(n) == IF n < 0 THEN 0 - n ELSE n

\* mutant: the difference without abs()
TimeDifferenceNoAbs(yours, theirs) ==
    [hours |-> yours - theirs, ahead |-> IF yours - theirs > 0 THEN "you" ELSE "mention"]

\* "You are {abs(your_tz - their_tz)} hours ahead of {mention}." if your_tz - their_tz > 0
\* else "{mention} is {abs(your_tz - their_tz)} hours ahead of you."
TimeDifference(yours, theirs) ==
    [hours |-> Abs(yours - theirs), ahead |-> IF yours - theirs > 0 THEN "you" ELSE "mention"]

InitField ==
    /\ now \in StartTimes
    /\ timezones = {}
    /\ messages = {}
    /\ cooldowns = <<>>
    /\ clear_db = "waiting"
    /\ changes = 0
    /\ update_cooldowns = "idle"
    /\ flow = [s \in Slots |-> IdleFlow]
    /\ ev = Ev("cog_load", 0, 0, "ok", FALSE)
    /\ your_tz \in TzRange
    /\ their_tz \in TzRange
    /\ field = NoField

\* embed.add_field(name = "Time Difference", value = ...)
AddField ==
    /\ field = NoField
    /\ field' = TimeDifference(your_tz, their_tz)
    /\ UNCHANGED <<now, timezones, messages, cooldowns, clear_db, changes,
                   update_cooldowns, flow, ev, your_tz, their_tz>>

NextField == AddField

SpecField == InitField /\ [][NextField]_vars

\* ------------------------------------------------------------ update_cooldowns
\* The task on its own: update_cooldowns has been started over a cooldowns table with the
\* columns the statements of the cog name (user_id, cooldown), holding what the database
\* file may hold, in rowid order.
MaxRows == 2

Expiries == {58, 60, 74}

CooldownRows == [user_id : Users, cooldown : Expiries]

\* a row is inserted only for an author who has none, so no two rows share a user_id
CooldownTables ==
    {t \in UNION {[1..n -> CooldownRows] : n \in 0..MaxRows} :
        \A i, j \in 1..Len(t) : t[i].user_id = t[j].user_id => i = j}

NoRow == [user_id |-> 0, cooldown |-> -1]

\* the least cooldown of the rows of a table that has rows
MinCooldown(table) ==
    CHOOSE m \in {table[i].cooldown : i \in 1..Len(table)} :
        \A i \in 1..Len(table) : m <= table[i].cooldown

\* SELECT * FROM cooldowns LIMIT 1 and fetchone(): no ORDER BY, so the row with the
\* least rowid, or None
FetchOne(table) == IF table = <<>> THEN NoRow ELSE Head(table)

\* utils.sleep_until(row['cooldown']): sleep_until takes a datetime and reads its tzinfo,
\* and the column holds the integer int(time.time()) + 15 * 60
SleepUntil(when) == "AttributeError"

\* DELETE FROM cooldowns WHERE user_id = ?
DeleteCooldown(table, user) == SelectSeq(table, LAMBDA r : r.user_id # user)

InitExpirer ==
    /\ now \in StartTimes
    /\ timezones = {}
    /\ messages = {}
    /\ cooldowns \in CooldownTables
    /\ clear_db = "waiting"
    /\ changes = 0
    /\ update_cooldowns = "running"
    /\ flow = [s \in Slots |-> IdleFlow]
    /\ ev = Ev("start", 0, 0, "ok", FALSE)
    /\ your_tz = 0
    /\ their_tz = 0
    /\ field = NoField

\* one iteration of the body of update_cooldowns
UpdateCooldowns ==
    /\ update_cooldowns = "running"
    /\ LET row == FetchOne(cooldowns)
       IN IF row = NoRow
            THEN \* cancel() is not followed by a return: row['cooldown'] subscripts None
                 /\ update_cooldowns' = "failed"
                 /\ cooldowns' = cooldowns
                 /\ ev' = Ev("update_cooldowns", 0, 0, "TypeError", FALSE)
            ELSE IF SleepUntil(row.cooldown) = "AttributeError"
            THEN /\ update_cooldowns' = "failed"
                 /\ cooldowns' = cooldowns
                 /\ ev' = Ev("update_cooldowns", row.user_id, row.cooldown,
                             "AttributeError", FALSE)
            ELSE \* the sleep is over and the DELETE runs
                 /\ now >= row.cooldown
                 /\ update_cooldowns' = "running"
                 /\ cooldowns' = DeleteCooldown(cooldowns, row.user_id)
                 /\ ev' = Ev("update_cooldowns", row.user_id, row.cooldown,
                             "deleted", FALSE)
    /\ UNCHANGED <<now, timezones, messages, clear_db, changes, flow,
                   your_tz, their_tz, field>>

NextExpirer ==
    \/ Tick
    \/ UpdateCooldowns

SpecExpirer == InitExpirer /\ [][NextExpirer]_vars

\* ------------------------------------------------------------ the claims
Qualifying(e) == e.op = "on_message" /\ e.result # "ignored"

\* C1: after Set(id, tz) succeeds (the set command followed by the 'Yes' confirmation)
\* Get(id) returns tz, and a Set for a user who has a record never gets as far as the
\* confirmation
C1_SetThenGet ==
    /\ ev.op = "yes" =>
         /\ HasTimezone(timezones, ev.user)
         /\ TimezoneOf(timezones, ev.user) = ev.arg
    /\ (ev.op = "set" /\ HasTimezone(timezones, ev.user)) => ev.result # "confirm"

\* C2: Remove(id) answers NotFound exactly when the user has no record, and then no
\* store changes; when it deletes, the record of that user and only that record goes
C2_Remove ==
    [][/\ (ev'.op = "remove" /\ ev'.result \in {"NotFound", "selected"}) =>
            /\ (ev'.result = "NotFound") = ~HasTimezone(timezones, ev'.user)
            /\ UNCHANGED <<timezones, messages, cooldowns>>
       /\ (ev'.op = "remove" /\ ev'.result = "removed") =>
            /\ timezones' = {r \in timezones : r.user_id # ev'.user}
            /\ UNCHANGED <<messages, cooldowns>>]_vars

C2_Witness ==
    /\ ev.op = "remove"
    /\ ev.result = "NotFound"
    /\ timezones # {}

\* C3: a tick of clear_db deletes every row of messages; when it deleted N > 0 rows the
\* task goes on waiting for its next tick, when it deleted none the task is cancelled
\* and stops without another tick
C3_SweepTick ==
    [][/\ (ev'.op = "clear_db" /\ ev'.result = "deleted") =>
            /\ messages' = {}
            /\ ev'.arg = Cardinality(messages)
            /\ changes' = Cardinality(messages)
       /\ (clear_db = "deleted" /\ ev'.op # "clear_db") => changes' = changes
       /\ (clear_db = "deleted" /\ ev'.op = "clear_db") =>
            /\ ev'.arg = changes
            /\ clear_db' = IF changes > 0 THEN "waiting" ELSE "cancelling"
       /\ clear_db = "cancelling" =>
            /\ clear_db' \in {"cancelling", "stopped"}
            /\ ev'.op = "clear_db" => (clear_db' = "stopped" /\ messages' = messages)]_vars

C3_Witness ==
    /\ ev.op = "clear_db"
    /\ ev.result = "kept"
    /\ ev.arg = 2
    /\ clear_db = "waiting"

\* C4: while clear_db is stopped it takes no step and no row of messages goes away; the
\* task leaves "stopped" only by the clear_db.start() of a handled message
C4_StoppedUntilRestart ==
    [][clear_db = "stopped" =>
         /\ ev'.op # "clear_db"
         /\ \A r \in messages : \E q \in messages' :
                q.guild_id = r.guild_id /\ q.channel_id = r.channel_id
         /\ clear_db' # "stopped" =>
                (Qualifying(ev') /\ ev'.started /\ clear_db' = "waiting")]_vars

C4_Witness ==
    /\ Qualifying(ev)
    /\ ev.started
    /\ clear_db = "waiting"

C6_NoReminderForUnsetMention ==
    [][(Qualifying(ev') /\ ev'.arg \in Users /\ ~HasTimezone(timezones, ev'.arg)) =>
          (~ev'.reminder /\ cooldowns' = cooldowns)]_vars

C6_Witness ==
    /\ Qualifying(ev)
    /\ ev.arg \in Users
    /\ ~HasTimezone(timezones, ev.arg)
    /\ HasTimezone(timezones, ev.user)

C8_ReminderIffBothSet ==
    (Qualifying(ev) /\ ev.result # "on_cooldown" /\ ev.arg \in Users /\ ev.arg # ev.user) =>
        ev.reminder = (HasTimezone(timezones, ev.arg) /\ HasTimezone(timezones, ev.user))

C14_Increment ==
    [][Qualifying(ev') =>
         \E p \in Places :
            /\ p[1] # NoGuild
            /\ LET had == {r \in messages : r.guild_id = p[1] /\ r.channel_id = p[2]}
                   others == messages \ had
               IN IF had = {}
                    THEN messages' = others \cup
                             {[guild_id |-> p[1], channel_id |-> p[2], count |-> 1]}
                    ELSE messages' = others \cup
                             {[r EXCEPT !.count = r.count + 1] : r \in had}]_vars

C18_NoStrandedRow ==
    (messages # {} /\ clear_db \in {"waiting", "stopped"}) => clear_db = "waiting"

C18_Witness ==
    /\ Qualifying(ev)
    /\ messages # {}
    /\ clear_db = "waiting"

\* C20: a message of a bot, or one outside a guild, is ignored: the three stores and the
\* two tasks stay as they were and no reminder is sent
C20_IgnoredChangesNothing ==
    [][(ev'.op = "on_message" /\ (ev'.result = "ignored" \/ ev'.user = Bot)) =>
          /\ ev'.result = "ignored"
          /\ ~ev'.reminder
          /\ UNCHANGED <<timezones, messages, cooldowns, clear_db, changes,
                         update_cooldowns>>]_vars

C20_Witness ==
    /\ ev.op = "on_message"
    /\ ev.result = "ignored"
    /\ clear_db = "stopped"

====
